---- MODULE Spec2Model ----
(***************************************************************************)
(* RpcHandler (src/rpc/handler.ts): route matching and the middleware      *)
(* pipeline run by handle / matchHandle.                                    *)
(*                                                                          *)
(* JavaScript values are written as the text of their literal: the string  *)
(* "undefined" is the value undefined, "0" the number 0, "''" the empty     *)
(* string.  Objects are records.                                            *)
(***************************************************************************)
EXTENDS Integers, Sequences, FiniteSets, TLC

VARIABLES
    options,    \* this.options, the IRouteOptions of the route (rateLimit.key is written by the rate-limit step)
    req,        \* per call: the IRpcRequest context (requestData)
    pc,         \* per call: position inside matchHandle / handle
    mw,         \* per call: index of the for-loop of handle into this.middlewares
    ret,        \* per call: what the call returned or threw
    cache,      \* contents of the Cacher store: key -> cached value
    started,    \* number of calls made so far
    hist        \* per call: history of what the call did (steps run, collaborators invoked)

vars == <<options, req, pc, mw, ret, cache, started, hist>>

Calls == {"c1", "c2"}

(***************************************************************************)
(* Bounds                                                                   *)
(***************************************************************************)
MaxCalls == 2       \* calls made in one behaviour

(***************************************************************************)
(* JavaScript values                                                        *)
(***************************************************************************)
Undefined == "undefined"

JsFalsy == {"undefined", "null", "0", "''", "false"}

\* the truthiness test of `if (x)` on a primitive value
Truthy(v) == v \notin JsFalsy

EmptyMap == [k \in {} |-> Undefined]

Put(m, k, v) == [x \in (DOMAIN m) \cup {k} |-> IF x = k THEN v ELSE m[x]]

Remove(m, k) == [x \in (DOMAIN m) \ {k} |-> m[x]]

\* an object reference that may be undefined
NoObject == [defined |-> FALSE, map |-> EmptyMap]

Object(m) == [defined |-> TRUE, map |-> m]

(***************************************************************************)
(* Strings that the code splits are sequences of one-character strings.    *)
(***************************************************************************)
RECURSIVE SplitFrom(_, _, _)
\* String.prototype.split(' '): the pieces between the spaces
SplitFrom(s, i, piece) ==
    IF i > Len(s) THEN <<piece>>
    ELSE IF s[i] = " " THEN <<piece>> \o SplitFrom(s, i + 1, <<>>)
    ELSE SplitFrom(s, i + 1, Append(piece, s[i]))

SplitSpace(s) == SplitFrom(s, 1, <<>>)

(***************************************************************************)
(* path-to-regexp: a pattern is a sequence of segments, a literal or a     *)
(* named parameter; a concrete path is a sequence of segment strings.      *)
(***************************************************************************)
Lit(s) == [kind |-> "lit", v |-> s]
Param(s) == [kind |-> "param", v |-> s]

\* this.pathKeys: the names of the pattern's parameters, in pattern order
PathKeys(pattern) ==
    SelectSeq(pattern, LAMBDA seg : seg.kind = "param")

\* this.pathRegExp.exec(path): <<TRUE, captures>> or <<FALSE, <<>>>> (null)
PathExec(pattern, segs) ==
    IF  /\ Len(segs) = Len(pattern)
        /\ \A i \in 1..Len(pattern) : pattern[i].kind = "lit" => pattern[i].v = segs[i]
    THEN [ok |-> TRUE,
          captures |-> [j \in 1..Len(PathKeys(pattern)) |->
                segs[CHOOSE i \in 1..Len(pattern) :
                        /\ pattern[i].kind = "param"
                        /\ Cardinality({k \in 1..i : pattern[k].kind = "param"}) = j]]]
    ELSE [ok |-> FALSE, captures |-> <<>>]

(***************************************************************************)
(* Route configurations                                                     *)
(***************************************************************************)
NoCache == [present |-> FALSE, expire |-> Undefined, authBased |-> FALSE]

NoRateLimit == [present |-> FALSE, keyGenerator |-> FALSE, key |-> <<>>]

\* path and name of the routes explored
RouteAddresses ==
    { [path |-> <<Lit("users"), Param("id")>>, name |-> Undefined],
      [path |-> <<Lit("orgs"), Param("org"), Param("id")>>, name |-> "getUser"] }

CacheConfigs ==
    {NoCache} \cup
    {[present |-> TRUE, expire |-> "60", authBased |-> ab] : ab \in BOOLEAN}

RateLimitConfigs ==
    {NoRateLimit} \cup
    {[present |-> TRUE, keyGenerator |-> kg, key |-> <<>>] : kg \in BOOLEAN}

Routes ==
    { [path |-> a.path, name |-> a.name, authentication |-> au, validate |-> va,
       rateLimit |-> rl, cache |-> ca] :
      a \in RouteAddresses, au \in BOOLEAN, va \in BOOLEAN,
      rl \in RateLimitConfigs, ca \in CacheConfigs }

(***************************************************************************)
(* Contexts handed to match / handle / matchHandle                          *)
(***************************************************************************)
NoPath == [present |-> FALSE, segs |-> <<>>]

Path(segs) == [present |-> TRUE, segs |-> segs]

NoHeader == [present |-> FALSE, s |-> <<>>]

Header(s) == [present |-> TRUE, s |-> s]

NoPrincipal == [defined |-> FALSE, token |-> <<>>]

NoCacheResponseOptions == [defined |-> FALSE, key |-> <<>>, expire |-> Undefined]

\* a descriptor left on the context by an earlier handler that processed it
StaleCacheResponseOptions == [defined |-> TRUE, key |-> <<"cache", "stale">>, expire |-> "5"]

NoResponse == [headers |-> EmptyMap, body |-> Undefined]

\* path / name / originalUrl of the calls explored
Addresses ==
    { [path |-> Path(<<"users", "42">>), name |-> Undefined, originalUrl |-> "/users/42"],
      [path |-> Path(<<"orgs", "acme", "7">>), name |-> Undefined, originalUrl |-> "/orgs/acme/7"],
      [path |-> Path(<<"health">>), name |-> "getUser", originalUrl |-> "/health"],
      [path |-> NoPath, name |-> "getUser", originalUrl |-> "getUser"],
      [path |-> NoPath, name |-> "listUsers", originalUrl |-> "listUsers"] }

Payloads ==
    { NoObject,
      Object(EmptyMap),
      Object([k \in {"id", "q"} |-> IF k = "id" THEN "old" ELSE "x"]) }

Headers ==
    { NoHeader,
      Header(<<"B", " ", "t">>) }

Request(a, h, p, cro) ==
    [path |-> a.path, name |-> a.name, originalUrl |-> a.originalUrl,
     method |-> "GET", ip |-> "10.0.0.1",
     encodedAuthentication |-> h, payload |-> p,
     authentication |-> NoPrincipal, cacheResponseOptions |-> cro,
     response |-> NoResponse]

\* the contexts explored: every address with every credential and descriptor,
\* and every address with every payload
Requests ==
    { Request(a, h, Object(EmptyMap), cro) :
        a \in Addresses, h \in Headers,
        cro \in {NoCacheResponseOptions, StaleCacheResponseOptions} }
    \cup
    { Request(a, Header(<<"B", " ", "t">>), p, NoCacheResponseOptions) :
        a \in Addresses, p \in Payloads }

\* credentials: none, no space, nothing after the space, one token, one
\* token followed by a space and more
AuthHeaders ==
    { NoHeader,
      Header(<<"B">>),
      Header(<<"B", " ">>),
      Header(<<"B", " ", "t">>),
      Header(<<"B", " ", "u">>),
      Header(<<"B", " ", "t", " ", "u">>) }

\* the contexts explored for the authentication step: every credential on
\* every address, and every address without a payload
AuthRequests ==
    { Request(a, h, Object(EmptyMap), NoCacheResponseOptions) :
        a \in Addresses, h \in AuthHeaders }
    \cup
    { Request(a, Header(<<"B", " ", "t">>), NoObject, NoCacheResponseOptions) :
        a \in Addresses }

\* the contexts explored for concurrent calls: a path call and a name call
ConcRequests ==
    { Request(a, Header(<<"B", " ", "t">>), Object(EmptyMap), NoCacheResponseOptions) :
        a \in {x \in Addresses : x.originalUrl \in {"/orgs/acme/7", "getUser"}} }

\* the context slot of a call that has not been made
IdleRequest ==
    Request([path |-> NoPath, name |-> Undefined, originalUrl |-> ""],
            NoHeader, NoObject, NoCacheResponseOptions)

\* what makes two calls "identical" for the cache
Identity(r) == [ip |-> r.ip, method |-> r.method, originalUrl |-> r.originalUrl,
                encodedAuthentication |-> r.encodedAuthentication]

External == [ip |-> "", method |-> "", originalUrl |-> "",
             encodedAuthentication |-> NoHeader]

(***************************************************************************)
(* Failures                                                                 *)
(***************************************************************************)
NoError == [cls |-> "none", code |-> 0, message |-> "", metadata |-> EmptyMap]

\* let status: number = 500
InternalError == 500

RequestError(code, message, metadata) ==
    [cls |-> "RequestError", code |-> code, message |-> message, metadata |-> metadata]

PlainError(cls, message) ==
    [cls |-> cls, code |-> 0, message |-> message, metadata |-> EmptyMap]

AuthenticationError == RequestError(401, "invalid token", EmptyMap)

ValidationError == RequestError(400, "invalid payload", [k \in {"id"} |-> "required"])

RateLimitError == RequestError(429, "too many requests", EmptyMap)

CacheError == PlainError("Error", "cache unavailable")

ControllerError == PlainError("Error", "controller failed")

PayloadTypeError == PlainError("TypeError", "Cannot set property of undefined")

(***************************************************************************)
(* Collaborators                                                            *)
(***************************************************************************)
ValidTokens == { <<"t">>, <<"u">> }

\* Authentication.verify(token, options): the principal, or a failure
AuthenticationVerify(token) ==
    IF token.defined /\ token.s \in ValidTokens
    THEN [ok |-> TRUE, principal |-> [defined |-> TRUE, token |-> token.s], error |-> NoError]
    ELSE [ok |-> FALSE, principal |-> NoPrincipal, error |-> AuthenticationError]

\* Payload.validate(payload, schema): the payloads it may return for a payload
PayloadValidateResults(payload) ==
    IF payload.defined
    THEN { payload, Object(Put(payload.map, "limit", "10")) }
    ELSE {}

\* RateLimiter.setup(options): the quota states it may resolve to
NoQuota ==
    [defined |-> FALSE, allowedBeforeLimit |-> 0, duration |-> 0,
     requests |-> 0, waitTime |-> 0, nan |-> {}]

Quota(a, d, r, w, nan) ==
    [defined |-> TRUE, allowedBeforeLimit |-> a, duration |-> d,
     requests |-> r, waitTime |-> w, nan |-> nan]

RateLimiterResults ==
    { NoQuota,
      Quota(10, 60, 11, 1500, {}),
      Quota(10, 60, 3, 0, {"waitTime"}) }

\* the key RateLimiter.setup(options) does its accounting under: it is
\* handed the options object of the route and reads options.key at some
\* moment before it resolves, so it finds the key the object had when it
\* was called (passed) or the one the object has by now (o.key)
RateLimiterSetupKeys(passed, o) == {passed, o.key}

\* the results the controller function may resolve to
ControllerResults == { "'user'", "0", "undefined" }

\* Cacher.retrieve(key)
NoCachedValue == [found |-> FALSE, body |-> Undefined, header |-> Undefined, src |-> External]

CachedValue(body, header, src) == [found |-> TRUE, body |-> body, header |-> header, src |-> src]

CacherRetrieve(store, key) ==
    IF key \in DOMAIN store THEN store[key] ELSE NoCachedValue

\* values found in the store that callers other than handle have put there
ExternalValues ==
    { CachedValue("'page'", "text/html", External),
      CachedValue("0", "application/json; charset=utf-8", External) }

(***************************************************************************)
(* The middlewares and the functions of RpcHandler, as functions of the    *)
(* route options o and the context r                                        *)
(***************************************************************************)
\* setupHandlers with the validation pushed before the normalization
setupHandlersValidateFirst(o) ==
    (IF o.authentication THEN <<"authentication">> ELSE <<>>)
    \o (IF o.validate THEN <<"payloadValidate">> ELSE <<>>)
    \o <<"payloadSetup">>
    \o (IF o.rateLimit.present THEN <<"rateLimiter">> ELSE <<>>)
    \o (IF o.cache.present THEN <<"cacher">> ELSE <<>>)
    \o <<"controller">>

\* setupHandlers: this.middlewares, in the order of the pushes
setupHandlers(o) ==
    (IF o.authentication THEN <<"authentication">> ELSE <<>>)
    \o <<"payloadSetup">>
    \o (IF o.validate THEN <<"payloadValidate">> ELSE <<>>)
    \o (IF o.rateLimit.present THEN <<"rateLimiter">> ELSE <<>>)
    \o (IF o.cache.present THEN <<"cacher">> ELSE <<>>)
    \o <<"controller">>

RECURSIVE MergeParams(_, _, _, _)
\* the for-loop of match: payload[key.name] = matchDetails[index + 1]
MergeParams(map, keys, captures, index) ==
    IF index >= Len(keys) THEN map
    ELSE MergeParams(Put(map, keys[index + 1].v, captures[index + 1]),
                     keys, captures, index + 1)

\* match falling back to the name when the path does not satisfy the pattern
\* match giving the context an empty payload before it returns null
matchNormalizing(o, r) ==
    IF r.path.present
    THEN LET matchDetails == PathExec(o.path, r.path.segs)
             pathKeys == PathKeys(o.path)
         IN  IF matchDetails.ok
             THEN IF Len(pathKeys) > 0 /\ ~r.payload.defined
                  THEN [outcome |-> "throw", req |-> r, error |-> PayloadTypeError]
                  ELSE [outcome |-> "ctx",
                        req |-> IF Len(pathKeys) = 0 THEN r
                                ELSE [r EXCEPT !.payload =
                                        Object(MergeParams(r.payload.map, pathKeys,
                                                           matchDetails.captures, 0))],
                        error |-> NoError]
             ELSE [outcome |-> "null",
                   req |-> [r EXCEPT !.payload = IF @.defined THEN @ ELSE Object(EmptyMap)],
                   error |-> NoError]
    ELSE IF Truthy(r.name) /\ r.name = o.name
         THEN [outcome |-> "ctx", req |-> r, error |-> NoError]
         ELSE [outcome |-> "null", req |-> r, error |-> NoError]

\* match falling back to the name when the path does not satisfy the pattern
matchNameFallback(o, r) ==
    IF r.path.present /\ PathExec(o.path, r.path.segs).ok
    THEN LET matchDetails == PathExec(o.path, r.path.segs)
             pathKeys == PathKeys(o.path)
         IN  IF Len(pathKeys) > 0 /\ ~r.payload.defined
             THEN [outcome |-> "throw", req |-> r, error |-> PayloadTypeError]
             ELSE [outcome |-> "ctx",
                   req |-> IF Len(pathKeys) = 0 THEN r
                           ELSE [r EXCEPT !.payload =
                                   Object(MergeParams(r.payload.map, pathKeys,
                                                      matchDetails.captures, 0))],
                   error |-> NoError]
    ELSE IF Truthy(r.name) /\ r.name = o.name
         THEN [outcome |-> "ctx", req |-> r, error |-> NoError]
         ELSE [outcome |-> "null", req |-> r, error |-> NoError]

\* match(requestData): the context (enriched), null, or a TypeError when
\* payload[...] is assigned on an undefined payload
match(o, r) ==
    IF r.path.present
    THEN LET matchDetails == PathExec(o.path, r.path.segs)
             pathKeys == PathKeys(o.path)
         IN  IF matchDetails.ok
             THEN IF Len(pathKeys) > 0 /\ ~r.payload.defined
                  THEN [outcome |-> "throw", req |-> r, error |-> PayloadTypeError]
                  ELSE [outcome |-> "ctx",
                        req |-> IF Len(pathKeys) = 0 THEN r
                                ELSE [r EXCEPT !.payload =
                                        Object(MergeParams(r.payload.map, pathKeys,
                                                           matchDetails.captures, 0))],
                        error |-> NoError]
             ELSE [outcome |-> "null", req |-> r, error |-> NoError]
    ELSE IF Truthy(r.name) /\ r.name = o.name
         THEN [outcome |-> "ctx", req |-> r, error |-> NoError]
         ELSE [outcome |-> "null", req |-> r, error |-> NoError]

\* does match touch requestData.payload (the path-parameter merge)
MatchReadsPayload(o, r) ==
    /\ r.path.present
    /\ PathExec(o.path, r.path.segs).ok
    /\ Len(PathKeys(o.path)) > 0

RECURSIVE AfterFirstSpace(_)
\* what follows the first space of s, nothing when s has no space
AfterFirstSpace(s) ==
    IF s = <<>> THEN <<>>
    ELSE IF Head(s) = " " THEN Tail(s)
    ELSE AfterFirstSpace(Tail(s))

\* the token taken as all that follows the first space
AuthenticationTokenRest(r) ==
    LET s == IF r.encodedAuthentication.present THEN r.encodedAuthentication.s ELSE <<>>
    IN  IF \E i \in 1..Len(s) : s[i] = " "
        THEN [defined |-> TRUE, s |-> AfterFirstSpace(s)]
        ELSE [defined |-> FALSE, s |-> <<>>]

\* (req.encodedAuthentication || '').split(' ')[1]
AuthenticationToken(r) ==
    LET s == IF r.encodedAuthentication.present THEN r.encodedAuthentication.s ELSE <<>>
        pieces == SplitSpace(s)
    IN  IF Len(pieces) >= 2
        THEN [defined |-> TRUE, s |-> pieces[2]]
        ELSE [defined |-> FALSE, s |-> <<>>]

\* the authentication middleware
authentication(r) ==
    LET v == AuthenticationVerify(AuthenticationToken(r))
    IN  [ok |-> v.ok, req |-> [r EXCEPT !.authentication = v.principal], error |-> v.error]

\* the payloadSetup middleware: req.payload = req.payload || {}
payloadSetup(r) ==
    [r EXCEPT !.payload = IF r.payload.defined THEN r.payload ELSE Object(EmptyMap)]

\* the payloadValidate middleware, given what Payload.validate returned
payloadValidate(r, validated) ==
    [r EXCEPT !.payload = validated]

\* a route's keyGenerator, some function of the context
KeyGenerator(r) == <<"custom", r.ip>>

\* the key the rateLimiter middleware writes to options.key
RateLimitKey(o, r) ==
    IF o.rateLimit.keyGenerator
    THEN KeyGenerator(r)
    ELSE <<"ratelimit", r.ip, r.method, r.originalUrl>>

\* Math.floor(x / 1000)
FloorThousandth(x) == x \div 1000

\* Math.round(x / 1000)
RoundThousandth(x) == (x + 500) \div 1000

\* the rateLimiter middleware answering itself once the quota is used up
rateLimiterRejecting(r, result) ==
    IF result.defined /\ result.nan = {}
    THEN [r EXCEPT !.response.headers =
            Put(Put(Put(Put(@,
                "X-Rate-Limit-Limit", ToString(result.allowedBeforeLimit)),
                "X-Rate-Limit-Remaining", ToString(result.allowedBeforeLimit - result.requests)),
                "X-Rate-Limit-Reset", ToString(result.duration)),
                "X-Rate-Limit-Wait", ToString(RoundThousandth(result.waitTime))),
                   !.response.body = IF result.requests > result.allowedBeforeLimit
                                     THEN "'Too Many Requests'" ELSE @]
    ELSE r

\* the rateLimiter middleware after RateLimiter.setup resolved to result
rateLimiter(r, result) ==
    IF result.defined /\ result.nan = {}
    THEN [r EXCEPT !.response.headers =
            Put(Put(Put(Put(@,
                "X-Rate-Limit-Limit", ToString(result.allowedBeforeLimit)),
                "X-Rate-Limit-Remaining", ToString(result.allowedBeforeLimit - result.requests)),
                "X-Rate-Limit-Reset", ToString(result.duration)),
                "X-Rate-Limit-Wait", ToString(RoundThousandth(result.waitTime)))]
    ELSE r

\* JSON.stringify of a string
JsonStringify(t) == <<"\"">> \o t \o <<"\"">>

\* the key of the cacher middleware without the principal's token
CacheKeyShared(o, r) ==
    <<"cache", r.ip, r.method, r.originalUrl>>

\* the key the cacher middleware computes
CacheKey(o, r) ==
    LET key == <<"cache", r.ip, r.method, r.originalUrl>>
    IN  IF o.cache.authBased /\ r.authentication.defined
        THEN Append(key, JsonStringify(r.authentication.token))
        ELSE key

\* the cacher middleware ignoring what Cacher.retrieve resolved to
cacherAlwaysMiss(o, r, key, cachedResponse) ==
    [r EXCEPT !.cacheResponseOptions =
        [defined |-> TRUE, key |-> key, expire |-> o.cache.expire]]

\* the cacher middleware after Cacher.retrieve(key) resolved to cachedResponse
cacher(o, r, key, cachedResponse) ==
    IF ~cachedResponse.found
    THEN [r EXCEPT !.cacheResponseOptions =
            [defined |-> TRUE, key |-> key, expire |-> o.cache.expire]]
    ELSE [r EXCEPT !.response.headers = Put(@, "Content-Type", cachedResponse.header),
                   !.response.body = cachedResponse.body]

\* the error translation keeping the default metadata
extractErrorDataNoMetadata(error) ==
    [status |-> IF error.cls = "RequestError" THEN error.code ELSE InternalError,
     message |-> error.message,
     metadata |-> EmptyMap]

\* extractErrorData(error)
extractErrorData(error) ==
    IF error.cls = "RequestError"
    THEN [status |-> error.code, message |-> error.message, metadata |-> error.metadata]
    ELSE [status |-> InternalError, message |-> error.message, metadata |-> EmptyMap]

\* the controller middleware after fn(req.payload) resolved to result
controller(r, result) ==
    [r EXCEPT !.response.body = result]

\* the for-loop of handle returning as soon as the body is not undefined
handleCheckDefined(r) ==
    IF r.response.body # Undefined
    THEN [returns |-> TRUE,
          store |-> r.cacheResponseOptions.defined,
          key |-> r.cacheResponseOptions.key,
          body |-> r.response.body,
          header |-> "application/json; charset=utf-8",
          expire |-> r.cacheResponseOptions.expire]
    ELSE [returns |-> FALSE, store |-> FALSE, key |-> <<>>, body |-> Undefined,
          header |-> Undefined, expire |-> Undefined]

\* the for-loop of handle returning the response without the Cacher.store
handleCheckNoStore(r) ==
    IF Truthy(r.response.body)
    THEN [returns |-> TRUE, store |-> FALSE, key |-> <<>>, body |-> r.response.body,
          header |-> Undefined, expire |-> Undefined]
    ELSE [returns |-> FALSE, store |-> FALSE, key |-> <<>>, body |-> Undefined,
          header |-> Undefined, expire |-> Undefined]

\* the body of the for-loop of handle after a middleware has returned:
\* whether handle returns now, and the Cacher.store it makes
handleCheck(r) ==
    IF Truthy(r.response.body)
    THEN [returns |-> TRUE,
          store |-> r.cacheResponseOptions.defined,
          key |-> r.cacheResponseOptions.key,
          body |-> r.response.body,
          header |-> "application/json; charset=utf-8",
          expire |-> r.cacheResponseOptions.expire]
    ELSE [returns |-> FALSE, store |-> FALSE, key |-> <<>>, body |-> Undefined,
          header |-> Undefined, expire |-> Undefined]

(***************************************************************************)
(* State                                                                    *)
(***************************************************************************)
\* what the error translation gives before it has been applied
NoErrorData == [status |-> 0, message |-> "", metadata |-> EmptyMap]

NoRet ==
    [kind |-> "none",               \* "response", "null" or "throw": how matchHandle ended
     response |-> NoResponse,       \* the response it returned
     error |-> NoError,             \* the failure it raised
     data |-> NoErrorData]          \* the translation of that failure

NoRetrieval == [state |-> "none", key |-> <<>>, value |-> NoCachedValue]

NoHist ==
    [input |-> IdleRequest,         \* the context as the caller passed it
     matchOutcome |-> "none",       \* what match did: "ctx", "null" or "throw"
     matched |-> IdleRequest,       \* the context as match left it
     croAtStart |-> NoCacheResponseOptions,   \* cacheResponseOptions when handle started
     trace |-> <<>>,                \* the middlewares begun, in order
     ended |-> 0,                   \* how many of them have returned
     normalized |-> FALSE,          \* payloadSetup has run
     earlyRead |-> {},              \* who touched payload before payloadSetup ran
     bodySets |-> <<>>,             \* the middlewares that assigned response.body
     verified |-> <<>>,             \* tokens passed to Authentication.verify
     setups |-> <<>>,               \* keys RateLimiter.setup was called with
     quotas |-> <<>>,               \* the quota states RateLimiter.setup resolved to,
                                    \* NoQuota standing for one with a field that is no number
     accounted |-> <<>>,            \* the keys RateLimiter.setup read from its options
     retrieved |-> NoRetrieval,     \* Cacher.retrieve: its key and what it resolved to
     identical |-> FALSE,           \* at retrieval the store held the response of an identical earlier call
     ctrlArgs |-> <<>>,             \* payloads the controller was called with
     ctrlResults |-> <<>>,          \* what the controller resolved to
     stores |-> <<>>,               \* arguments of the Cacher.store calls
     failedAt |-> "none",           \* the middleware that failed
     thrown |-> NoError]            \* the failure it raised

\* the keys under which the route's path-addressed calls look up the store
PreloadKeys(o) ==
    { <<"cache", "10.0.0.1", "GET", a.originalUrl>> :
        a \in {x \in Addresses : x.path.present /\ PathExec(o.path, x.path.segs).ok} }

\* what the Cacher store may hold when the first call is made: nothing, or
\* one value somebody else stored under such a key
Preloads(o) ==
    {EmptyMap} \cup
    { [k \in {key} |-> v] : key \in PreloadKeys(o), v \in ExternalValues }

Init ==
    /\ options \in Routes
    /\ req = [c \in Calls |-> IdleRequest]
    /\ pc = [c \in Calls |-> "idle"]
    /\ mw = [c \in Calls |-> 0]
    /\ ret = [c \in Calls |-> NoRet]
    /\ cache \in Preloads(options)
    /\ started = 0
    /\ hist = [c \in Calls |-> NoHist]

Middlewares == setupHandlers(options)

AtStep(c, step) ==
    /\ pc[c] = "loop"
    /\ mw[c] \in 1..Len(Middlewares)
    /\ Middlewares[mw[c]] = step

Begun(h, step) == [h EXCEPT !.trace = Append(@, step)]

\* handle, lines 155-171: the middleware returned the context r
AfterMiddleware(c, r, h) ==
    LET chk == handleCheck(r)
        h1 == [h EXCEPT !.ended = @ + 1]
    IN  /\ req' = [req EXCEPT ![c] = r]
        /\ IF chk.returns
           THEN /\ pc' = [pc EXCEPT ![c] = "done"]
                /\ ret' = [ret EXCEPT ![c] =
                        [kind |-> "response", response |-> r.response, error |-> NoError,
                         data |-> NoErrorData]]
                /\ mw' = mw
                /\ IF chk.store
                   THEN /\ cache' = Put(cache, chk.key,
                                CachedValue(chk.body, chk.header,
                                    IF h.retrieved.state = "miss" /\ Len(h.ctrlResults) > 0
                                    THEN Identity(h.input) ELSE External))
                        /\ hist' = [hist EXCEPT ![c] = [h1 EXCEPT !.stores =
                                Append(@, [key |-> chk.key, body |-> chk.body,
                                           header |-> chk.header, expire |-> chk.expire])]]
                   ELSE /\ cache' = cache
                        /\ hist' = [hist EXCEPT ![c] = h1]
           ELSE /\ cache' = cache
                /\ hist' = [hist EXCEPT ![c] = h1]
                /\ IF mw[c] < Len(Middlewares)
                   THEN /\ mw' = [mw EXCEPT ![c] = @ + 1]
                        /\ pc' = [pc EXCEPT ![c] = "loop"]
                        /\ ret' = ret
                   ELSE /\ mw' = mw
                        /\ pc' = [pc EXCEPT ![c] = "done"]
                        /\ ret' = [ret EXCEPT ![c] =
                                [kind |-> "null", response |-> NoResponse, error |-> NoError,
                                 data |-> NoErrorData]]

\* a failing middleware whose failure handle catches, going on with the loop
FailSwallowed(c, r, h, step, err) ==
    AfterMiddleware(c, r, [h EXCEPT !.failedAt = step, !.thrown = err])

\* a middleware has thrown: nothing in handle or matchHandle catches it
Fail(c, r, h, step, err) ==
    /\ req' = [req EXCEPT ![c] = r]
    /\ pc' = [pc EXCEPT ![c] = "failed"]
    /\ ret' = [ret EXCEPT ![c] = [kind |-> "throw", response |-> NoResponse, error |-> err,
                                  data |-> NoErrorData]]
    /\ hist' = [hist EXCEPT ![c] = [h EXCEPT !.failedAt = step, !.thrown = err]]
    /\ UNCHANGED <<mw, cache>>

(***************************************************************************)
(* matchHandle(requestData): match, then handle up to its for-loop          *)
(***************************************************************************)
MatchHandle(c, r) ==
    /\ pc[c] = "idle"
    /\ started < MaxCalls
    /\ started' = started + 1
    /\ LET m == match(options, r)
           h == [NoHist EXCEPT
                    !.input = r,
                    !.matchOutcome = m.outcome,
                    !.matched = m.req,
                    !.croAtStart = IF m.outcome = "ctx" THEN m.req.cacheResponseOptions
                                   ELSE NoCacheResponseOptions,
                    !.earlyRead = IF MatchReadsPayload(options, r) THEN {"match"} ELSE {}]
       IN  /\ hist' = [hist EXCEPT ![c] = h]
           /\ CASE m.outcome = "throw" ->
                    /\ req' = [req EXCEPT ![c] = m.req]
                    /\ pc' = [pc EXCEPT ![c] = "failed"]
                    /\ ret' = [ret EXCEPT ![c] =
                            [kind |-> "throw", response |-> NoResponse, error |-> m.error,
                             data |-> NoErrorData]]
                    /\ mw' = mw
                [] m.outcome = "null" ->
                    /\ req' = [req EXCEPT ![c] = m.req]
                    /\ pc' = [pc EXCEPT ![c] = "done"]
                    /\ ret' = [ret EXCEPT ![c] =
                            [kind |-> "null", response |-> NoResponse, error |-> NoError,
                             data |-> NoErrorData]]
                    /\ mw' = mw
                [] m.outcome = "ctx" ->
                    /\ req' = [req EXCEPT ![c] = [m.req EXCEPT !.response = NoResponse]]
                    /\ pc' = [pc EXCEPT ![c] = "loop"]
                    /\ mw' = [mw EXCEPT ![c] = 1]
                    /\ ret' = ret
    /\ UNCHANGED <<options, cache>>

(***************************************************************************)
(* The middlewares, one action per stretch between two awaits               *)
(***************************************************************************)
Authentication(c) ==
    /\ AtStep(c, "authentication")
    /\ LET a == authentication(req[c])
           h == [Begun(hist[c], "authentication") EXCEPT
                    !.verified = Append(@, AuthenticationToken(req[c]))]
       IN  IF a.ok
           THEN AfterMiddleware(c, a.req, h)
           ELSE Fail(c, req[c], h, "authentication", a.error)
    /\ UNCHANGED <<options, started>>

PayloadSetup(c) ==
    /\ AtStep(c, "payloadSetup")
    /\ AfterMiddleware(c, payloadSetup(req[c]),
            [Begun(hist[c], "payloadSetup") EXCEPT !.normalized = TRUE])
    /\ UNCHANGED <<options, started>>

PayloadValidate(c) ==
    /\ AtStep(c, "payloadValidate")
    /\ LET h == [Begun(hist[c], "payloadValidate") EXCEPT
                    !.earlyRead = IF hist[c].normalized THEN @ ELSE @ \cup {"payloadValidate"}]
       IN  \/ \E validated \in PayloadValidateResults(req[c].payload) :
                AfterMiddleware(c, payloadValidate(req[c], validated), h)
           \/ Fail(c, req[c], h, "payloadValidate", ValidationError)
    /\ UNCHANGED <<options, started>>

RateLimiterCall(c) ==
    /\ AtStep(c, "rateLimiter")
    /\ options' = [options EXCEPT !.rateLimit.key = RateLimitKey(options, req[c])]
    /\ hist' = [hist EXCEPT ![c] = [Begun(@, "rateLimiter") EXCEPT
                    !.setups = Append(@, options'.rateLimit.key)]]
    /\ pc' = [pc EXCEPT ![c] = "rateLimiter"]
    /\ UNCHANGED <<req, mw, ret, cache, started>>

RateLimiterResume(c) ==
    /\ pc[c] = "rateLimiter"
    /\ \E key \in RateLimiterSetupKeys(hist[c].setups[Len(hist[c].setups)], options.rateLimit) :
        LET h == [hist[c] EXCEPT !.accounted = Append(@, key)]
        IN  \/ \E result \in RateLimiterResults :
                    AfterMiddleware(c, rateLimiter(req[c], result),
                        [h EXCEPT !.quotas = Append(@,
                            IF result.defined /\ result.nan = {} THEN result ELSE NoQuota)])
            \/ Fail(c, req[c], h, "rateLimiter", RateLimitError)
    /\ UNCHANGED <<options, started>>

CacherCall(c) ==
    /\ AtStep(c, "cacher")
    /\ hist' = [hist EXCEPT ![c] = [Begun(@, "cacher") EXCEPT
                    !.retrieved = [state |-> "pending", key |-> CacheKey(options, req[c]),
                                   value |-> NoCachedValue]]]
    /\ pc' = [pc EXCEPT ![c] = "cacher"]
    /\ UNCHANGED <<options, req, mw, ret, cache, started>>

CacherResume(c) ==
    /\ pc[c] = "cacher"
    /\ LET key == hist[c].retrieved.key
           cachedResponse == CacherRetrieve(cache, key)
           r == cacher(options, req[c], key, cachedResponse)
           h == [hist[c] EXCEPT
                    !.retrieved = [state |-> IF cachedResponse.found THEN "hit" ELSE "miss",
                                   key |-> key, value |-> cachedResponse],
                    !.identical = \E k \in DOMAIN cache :
                                        /\ cache[k].src # External
                                        /\ cache[k].src = Identity(hist[c].input),
                    !.bodySets = IF cachedResponse.found THEN Append(@, "cacher") ELSE @]
       IN  \/ AfterMiddleware(c, r, h)
           \/ Fail(c, req[c], hist[c], "cacher", CacheError)
    /\ UNCHANGED <<options, started>>

ControllerCall(c) ==
    /\ AtStep(c, "controller")
    /\ hist' = [hist EXCEPT ![c] = [Begun(@, "controller") EXCEPT
                    !.ctrlArgs = Append(@, req[c].payload),
                    !.earlyRead = IF hist[c].normalized THEN @ ELSE @ \cup {"controller"}]]
    /\ pc' = [pc EXCEPT ![c] = "controller"]
    /\ UNCHANGED <<options, req, mw, ret, cache, started>>

ControllerResume(c) ==
    /\ pc[c] = "controller"
    /\ \/ \E result \in ControllerResults :
            AfterMiddleware(c, controller(req[c], result),
                [hist[c] EXCEPT !.bodySets = Append(@, "controller"),
                                !.ctrlResults = Append(@, result)])
       \/ Fail(c, req[c], hist[c], "controller", ControllerError)
    /\ UNCHANGED <<options, started>>

(***************************************************************************)
(* The caller translates the failure matchHandle raised                     *)
(***************************************************************************)
ExtractErrorData(c) ==
    /\ pc[c] = "failed"
    /\ ret[c].data = NoErrorData
    /\ ret' = [ret EXCEPT ![c].data = extractErrorData(ret[c].error)]
    /\ UNCHANGED <<options, req, pc, mw, cache, started, hist>>

(***************************************************************************)
(* The caller takes the outcome and discards the context                    *)
(***************************************************************************)
Return(c) ==
    /\ pc[c] \in {"done", "failed"}
    /\ req' = [req EXCEPT ![c] = IdleRequest]
    /\ pc' = [pc EXCEPT ![c] = "idle"]
    /\ mw' = [mw EXCEPT ![c] = 0]
    /\ ret' = [ret EXCEPT ![c] = NoRet]
    /\ hist' = [hist EXCEPT ![c] = NoHist]
    /\ UNCHANGED <<options, cache, started>>

(***************************************************************************)
(* The Cacher store drops an entry whose expiry has passed                  *)
(***************************************************************************)
Expire ==
    /\ \E k \in DOMAIN cache : cache' = Remove(cache, k)
    /\ UNCHANGED <<options, req, pc, mw, ret, started, hist>>

\* calls are made one after the other
Sequential(c) ==
    /\ c = "c1"
    /\ \A d \in Calls : pc[d] = "idle"

Next ==
    \/ \E c \in Calls, r \in Requests : Sequential(c) /\ MatchHandle(c, r)
    \/ \E c \in Calls : Authentication(c)
    \/ \E c \in Calls : PayloadSetup(c)
    \/ \E c \in Calls : PayloadValidate(c)
    \/ \E c \in Calls : RateLimiterCall(c)
    \/ \E c \in Calls : RateLimiterResume(c)
    \/ \E c \in Calls : CacherCall(c)
    \/ \E c \in Calls : CacherResume(c)
    \/ \E c \in Calls : ControllerCall(c)
    \/ \E c \in Calls : ControllerResume(c)
    \/ \E c \in Calls : Return(c)
    \/ Expire

Spec == Init /\ [][Next]_vars

(***************************************************************************)
(* Calls with every kind of credential on routes that have every step,      *)
(* their failures translated by the caller                                  *)
(***************************************************************************)
FullRoutes ==
    {o \in Routes : o.authentication /\ o.validate /\ o.rateLimit.present /\ o.cache.present}

InitAuth ==
    /\ options \in FullRoutes
    /\ req = [c \in Calls |-> IdleRequest]
    /\ pc = [c \in Calls |-> "idle"]
    /\ mw = [c \in Calls |-> 0]
    /\ ret = [c \in Calls |-> NoRet]
    /\ cache = EmptyMap
    /\ started = 0
    /\ hist = [c \in Calls |-> NoHist]

NextAuth ==
    \/ \E c \in Calls, r \in AuthRequests : Sequential(c) /\ MatchHandle(c, r)
    \/ \E c \in Calls : Authentication(c)
    \/ \E c \in Calls : PayloadSetup(c)
    \/ \E c \in Calls : PayloadValidate(c)
    \/ \E c \in Calls : RateLimiterCall(c)
    \/ \E c \in Calls : RateLimiterResume(c)
    \/ \E c \in Calls : CacherCall(c)
    \/ \E c \in Calls : CacherResume(c)
    \/ \E c \in Calls : ControllerCall(c)
    \/ \E c \in Calls : ControllerResume(c)
    \/ \E c \in Calls : ExtractErrorData(c)
    \/ \E c \in Calls : Return(c)
    \/ Expire

SpecAuth == InitAuth /\ [][NextAuth]_vars

(***************************************************************************)
(* Concurrent calls on one route: a call may be made while another is       *)
(* suspended at an await                                                    *)
(***************************************************************************)
InitConc ==
    /\ options \in {o \in FullRoutes : o.name = "getUser" /\ ~o.cache.authBased}
    /\ req = [c \in Calls |-> IdleRequest]
    /\ pc = [c \in Calls |-> "idle"]
    /\ mw = [c \in Calls |-> 0]
    /\ ret = [c \in Calls |-> NoRet]
    /\ cache = EmptyMap
    /\ started = 0
    /\ hist = [c \in Calls |-> NoHist]

NextConc ==
    \/ \E c \in Calls, r \in ConcRequests : MatchHandle(c, r)
    \/ \E c \in Calls : Authentication(c)
    \/ \E c \in Calls : PayloadSetup(c)
    \/ \E c \in Calls : PayloadValidate(c)
    \/ \E c \in Calls : RateLimiterCall(c)
    \/ \E c \in Calls : RateLimiterResume(c)
    \/ \E c \in Calls : CacherCall(c)
    \/ \E c \in Calls : CacherResume(c)
    \/ \E c \in Calls : ControllerCall(c)
    \/ \E c \in Calls : ControllerResume(c)
    \/ \E c \in Calls : ExtractErrorData(c)
    \/ \E c \in Calls : Return(c)
    \/ Expire

SpecConc == InitConc /\ [][NextConc]_vars

(***************************************************************************)
(* Type invariant                                                           *)
(***************************************************************************)
TypeOK ==
    /\ [options EXCEPT !.rateLimit.key = <<>>] \in Routes
    /\ \A c \in Calls :
            /\ req[c].payload.defined \in BOOLEAN
            /\ DOMAIN req[c].payload.map \subseteq {"id", "org", "q", "limit"}
            /\ DOMAIN req[c].response.headers \subseteq
                    {"Content-Type", "X-Rate-Limit-Limit", "X-Rate-Limit-Remaining",
                     "X-Rate-Limit-Reset", "X-Rate-Limit-Wait"}
            /\ req[c].authentication.defined => req[c].authentication.token \in ValidTokens
            /\ ret[c].kind \in {"none", "response", "null", "throw"}
    /\ pc \in [Calls -> {"idle", "loop", "rateLimiter", "cacher", "controller", "done", "failed"}]
    /\ mw \in [Calls -> 0..6]
    /\ started \in 0..MaxCalls

(***************************************************************************)
(* Properties                                                               *)
(***************************************************************************)
IsPrefix(a, b) ==
    /\ Len(a) <= Len(b)
    /\ \A i \in 1..Len(a) : a[i] = b[i]

Last(q) == q[Len(q)]

Handled(c) == hist[c].matchOutcome = "ctx"

Finished(c) == pc[c] \in {"done", "failed"}

\* the steps the route's configuration asks for, in the documented order
StepOrder ==
    <<"authentication", "payloadSetup", "payloadValidate", "rateLimiter", "cacher", "controller">>

Configured(step) ==
    CASE step = "authentication" -> options.authentication
      [] step = "payloadSetup" -> TRUE
      [] step = "payloadValidate" -> options.validate
      [] step = "rateLimiter" -> options.rateLimit.present
      [] step = "cacher" -> options.cache.present
      [] step = "controller" -> TRUE

ConfiguredSteps == SelectSeq(StepOrder, Configured)

\* C1: for every route configuration the steps a call runs are a prefix of
\* authentication (iff configured), payload normalization, validation (iff
\* configured), rate limiting (iff configured), cache check (iff configured),
\* controller, in this order; a step begins only when every earlier one has
\* returned, and a call that ran every step without a body ran all of them.
C1_StepsInConfiguredOrder ==
    \A c \in Calls :
        /\ IsPrefix(hist[c].trace, ConfiguredSteps)
        /\ hist[c].ended <= Len(hist[c].trace)
        /\ Len(hist[c].trace) - hist[c].ended <= 1
        /\ pc[c] = "loop" => hist[c].ended = Len(hist[c].trace)
        /\ (Handled(c) /\ pc[c] = "done" /\ ret[c].kind = "null")
                => hist[c].trace = ConfiguredSteps

C1_Witness ==
    \E c \in Calls :
        /\ pc[c] = "done"
        /\ hist[c].trace = StepOrder
        /\ hist[c].ended = 6

\* C2: in every call response.body is assigned by at most one pipeline step,
\* and once a step has assigned it (whatever the value, 0 or '' included) no
\* further step of the pipeline is run.
C2_BodySetOnceThenStop ==
    \A c \in Calls :
        /\ Len(hist[c].bodySets) <= 1
        /\ Len(hist[c].bodySets) = 1 => Last(hist[c].trace) = hist[c].bodySets[1]

\* C3: on a cache hit handle returns a response whose body and Content-Type
\* header are those of the cached value, and neither the controller nor
\* Cacher.store is invoked in that call.
C3_HitReturnsCachedValue ==
    \A c \in Calls :
        hist[c].retrieved.state = "hit" =>
            /\ hist[c].ctrlArgs = <<>>
            /\ hist[c].stores = <<>>
            /\ pc[c] = "done"
            /\ ret[c].kind = "response"
            /\ ret[c].response.body = hist[c].retrieved.value.body
            /\ "Content-Type" \in DOMAIN ret[c].response.headers
            /\ ret[c].response.headers["Content-Type"] = hist[c].retrieved.value.header

\* C4: after a cache miss on a route with cache configured the controller is
\* invoked, and Cacher.store is invoked exactly once, with the key of the
\* cache-check step, {body: controller result, header: 'application/json;
\* charset=utf-8'} and config.expire, iff the controller produced a body;
\* otherwise Cacher.store is not invoked.
C4_MissStoresControllerResult ==
    \A c \in Calls :
        hist[c].retrieved.state = "miss" =>
            /\ options.cache.present
            /\ Finished(c) => Len(hist[c].ctrlArgs) = 1
            /\ IF hist[c].ctrlResults # <<>> /\ Truthy(hist[c].ctrlResults[1])
               THEN hist[c].stores =
                        << [key |-> hist[c].retrieved.key,
                            body |-> hist[c].ctrlResults[1],
                            header |-> "application/json; charset=utf-8",
                            expire |-> options.cache.expire] >>
               ELSE hist[c].stores = <<>>

C4_Witness ==
    \E c \in Calls :
        /\ hist[c].retrieved.state = "miss"
        /\ pc[c] = "done"
        /\ Len(hist[c].stores) = 1
        /\ hist[c].retrieved.key \in DOMAIN cache

\* C5: Cacher.store is attempted only when a response body exists and
\* cacheResponseOptions was set by the cache-check step of the same call;
\* never on a route without cache configuration, nor because of a
\* cacheResponseOptions already on the context when handle starts.
C5_StoreOnlyAfterOwnMiss ==
    \A c \in Calls :
        hist[c].stores # <<>> =>
            /\ options.cache.present
            /\ hist[c].retrieved.state = "miss"
            /\ Truthy(req[c].response.body)
            /\ \A i \in 1..Len(hist[c].stores) :
                    hist[c].stores[i].key = hist[c].retrieved.key

\* C6: payload is never touched by the validation step, by the
\* path-parameter merge of match, or by the controller before the
\* payload-normalization step has run for that call (matchHandle included,
\* whatever payload the context starts with).
C6_PayloadReadAfterNormalization ==
    \A c \in Calls :
        /\ hist[c].earlyRead = {}
        /\ ret[c].error # PayloadTypeError

\* the failure each collaborator raises
ErrorOf(step) ==
    CASE step = "authentication" -> AuthenticationError
      [] step = "payloadValidate" -> ValidationError
      [] step = "rateLimiter" -> RateLimitError
      [] step = "cacher" -> CacheError
      [] step = "controller" -> ControllerError

Before(stepA, stepB) ==
    \E i, j \in 1..Len(StepOrder) :
        i < j /\ StepOrder[i] = stepA /\ StepOrder[j] = stepB

\* C7: when a step fails, the failure leaves handle / matchHandle unchanged:
\* the failing step is the last one run, no RateLimiter.setup,
\* Cacher.retrieve, controller call or Cacher.store of a later step happens,
\* and no response is returned; a validation failure comes before the
\* rate-limit, cache and controller steps.
C7_FailurePropagates ==
    \A c \in Calls :
        hist[c].failedAt # "none" =>
            /\ pc[c] = "failed"
            /\ ret[c].kind = "throw"
            /\ ret[c].error = ErrorOf(hist[c].failedAt)
            /\ Last(hist[c].trace) = hist[c].failedAt
            /\ hist[c].stores = <<>>
            /\ Before(hist[c].failedAt, "rateLimiter") => hist[c].setups = <<>>
            /\ Before(hist[c].failedAt, "cacher") => hist[c].retrieved.state = "none"
            /\ Before(hist[c].failedAt, "controller") => hist[c].ctrlArgs = <<>>

C7_Witness ==
    \E c \in Calls :
        /\ hist[c].failedAt = "payloadValidate"
        /\ options.rateLimit.present
        /\ options.cache.present
        /\ req[c].cacheResponseOptions.defined
        /\ pc[c] = "failed"

MergedAsSpecified(pattern, captures, before, after) ==
    LET keys == PathKeys(pattern)
        names == {keys[i].v : i \in 1..Len(keys)}
    IN  /\ before.defined
        /\ after.defined
        /\ DOMAIN after.map = (DOMAIN before.map) \cup names
        /\ \A i \in 1..Len(keys) : after.map[keys[i].v] = captures[i]
        /\ \A k \in (DOMAIN before.map) \ names : after.map[k] = before.map[k]

\* C9: for every route whose pattern has named segments and every context
\* whose path satisfies the pattern, match writes exactly the pattern's
\* parameter names into payload, the i-th key with the i-th capture,
\* overwriting keys of the same name and leaving the others, and returns the
\* same context.
C9_MatchInjectsPathParameters ==
    \A c \in Calls :
        ( /\ hist[c].matchOutcome # "none"
          /\ hist[c].input.path.present
          /\ PathExec(options.path, hist[c].input.path.segs).ok
          /\ Len(PathKeys(options.path)) > 0 )
        =>  /\ hist[c].matchOutcome = "ctx"
            /\ hist[c].matched = [hist[c].input EXCEPT !.payload = hist[c].matched.payload]
            /\ MergedAsSpecified(options.path,
                    PathExec(options.path, hist[c].input.path.segs).captures,
                    hist[c].input.payload, hist[c].matched.payload)

\* C10 as stated: on a route that has a name match succeeds iff context.name
\* equals the route name; a context with a path never matches a route that
\* has a name, and a path-less context with a name never matches a route
\* without one.
C10_Original ==
    \A c \in Calls :
        hist[c].matchOutcome # "none" =>
            /\ options.name # Undefined =>
                    (hist[c].matchOutcome = "ctx" <=> hist[c].input.name = options.name)
            /\ (hist[c].input.path.present /\ options.name # Undefined)
                    => hist[c].matchOutcome # "ctx"
            /\ (~hist[c].input.path.present /\ options.name = Undefined)
                    => hist[c].matchOutcome # "ctx"

\* C10 (amended): a context without a path matches iff its name is non-empty
\* and equals the route's name exactly, and is returned as it came (so it
\* never matches a route without a name); a context with a path is never
\* matched by name: when its path does not satisfy the route's pattern match
\* returns null even if the names are equal; one mode is evaluated per call,
\* the path mode iff context.path is populated.
C10_OneModePerCall ==
    \A c \in Calls :
        hist[c].matchOutcome # "none" =>
            /\ ~hist[c].input.path.present =>
                    /\ hist[c].matchOutcome \in {"ctx", "null"}
                    /\ hist[c].matchOutcome = "ctx" <=>
                            (Truthy(hist[c].input.name) /\ hist[c].input.name = options.name)
                    /\ hist[c].matched = hist[c].input
            /\ hist[c].input.path.present =>
                    /\ ~PathExec(options.path, hist[c].input.path.segs).ok
                            => hist[c].matchOutcome = "null"
                    /\ hist[c].matchOutcome = "null"
                            => ~PathExec(options.path, hist[c].input.path.segs).ok

C10_Witness ==
    \E c \in Calls :
        /\ hist[c].input.path.present
        /\ Truthy(hist[c].input.name)
        /\ hist[c].input.name = options.name
        /\ hist[c].matchOutcome = "null"
        /\ pc[c] = "done"

(***************************************************************************)
(* Rate-limit headers                                                       *)
(***************************************************************************)
RateLimitHeaders ==
    {"X-Rate-Limit-Limit", "X-Rate-Limit-Remaining", "X-Rate-Limit-Reset", "X-Rate-Limit-Wait"}

\* the quota state has its four fields numeric
Numeric(q) == q.defined /\ q.nan = {}

\* w is x / 1000 rounded to the nearest integer, a half going up
NearestThousandth(w, x) == 1000 * w <= x + 500 /\ x + 500 < 1000 * (w + 1)

\* the headers hd are the four rate-limit headers that the quota state q gives
QuotaHeaders(hd, q) ==
    /\ RateLimitHeaders \subseteq DOMAIN hd
    /\ hd["X-Rate-Limit-Limit"] = ToString(q.allowedBeforeLimit)
    /\ hd["X-Rate-Limit-Remaining"] = ToString(q.allowedBeforeLimit - q.requests)
    /\ hd["X-Rate-Limit-Reset"] = ToString(q.duration)
    /\ \E w \in 0..(q.waitTime \div 1000 + 1) :
            /\ NearestThousandth(w, q.waitTime)
            /\ hd["X-Rate-Limit-Wait"] = ToString(w)

\* the response of call c as it stands: the one handle returned, or the
\* one on the context while the pipeline runs
ResponseOf(c) ==
    IF ret[c].kind = "response" THEN ret[c].response ELSE req[c].response

\* C11: the four rate-limit headers are in the response iff
\* RateLimiter.setup resolved to a quota state whose four fields are
\* numeric; then Limit = allowedBeforeLimit, Remaining = allowedBeforeLimit
\* - requests, Reset = duration, Wait = waitTime / 1000 rounded to the
\* nearest second, and they are still in the response handle returns.
C11_RateLimitHeaders ==
    \A c \in Calls :
        Handled(c) =>
            LET hd == ResponseOf(c).headers
                resolved == Len(hist[c].quotas) > 0
            IN  /\ (resolved /\ Numeric(Last(hist[c].quotas)))
                        => QuotaHeaders(hd, Last(hist[c].quotas))
                /\ ~(resolved /\ Numeric(Last(hist[c].quotas)))
                        => RateLimitHeaders \cap DOMAIN hd = {}

C11_Witness ==
    \E c \in Calls :
        /\ pc[c] = "done"
        /\ ret[c].kind = "response"
        /\ Len(hist[c].quotas) > 0
        /\ Last(hist[c].quotas).requests > Last(hist[c].quotas).allowedBeforeLimit
        /\ Last(hist[c].quotas).waitTime = 1500
        /\ ret[c].response.headers["X-Rate-Limit-Wait"] = "2"
        /\ ret[c].response.headers["X-Rate-Limit-Remaining"] = "-1"

(***************************************************************************)
(* Error translation                                                        *)
(***************************************************************************)
Translated(c) == ret[c].kind = "throw" /\ ret[c].data # NoErrorData

\* the failures that are not request errors
UnstructuredFailures == {CacheError, ControllerError, PayloadTypeError}

\* C12: the translation of a propagated failure has the failure's message,
\* and status 500 with empty metadata unless the failure is a request
\* error, whose code and metadata it then has.
C12_ErrorTranslation ==
    \A c \in Calls :
        Translated(c) =>
            /\ ret[c].data.message = ret[c].error.message
            /\ ret[c].error = hist[c].thrown \/ hist[c].matchOutcome = "throw"
            /\ IF ret[c].error.cls = "RequestError"
               THEN /\ ret[c].data.status = ret[c].error.code
                    /\ ret[c].data.metadata = ret[c].error.metadata
               ELSE /\ ret[c].data.status = 500
                    /\ ret[c].data.metadata = EmptyMap

C12_Witness ==
    \E c \in Calls :
        /\ Translated(c)
        /\ hist[c].failedAt = "payloadValidate"
        /\ ret[c].data.status = 400
        /\ ret[c].data.message = "invalid payload"
        /\ DOMAIN ret[c].data.metadata = {"id"}

\* C13: the translation of a failure that is not a request error has status
\* 500 and a message that is the same whatever the failure's own message.
C13_GenericMessage ==
    \A c \in Calls :
        (Translated(c) /\ ret[c].error.cls # "RequestError") =>
            /\ ret[c].data.status = 500
            /\ \A e \in UnstructuredFailures :
                    extractErrorData(e).message = ret[c].data.message

(***************************************************************************)
(* Calls that end without a response                                        *)
(***************************************************************************)
\* C17: when every step of the pipeline has completed and none has produced
\* a response body, handle has returned null, has raised nothing and has
\* made no Cacher.store.
C17_NoBodyReturnsNull ==
    \A c \in Calls :
        ( /\ Handled(c)
          /\ hist[c].trace = ConfiguredSteps
          /\ hist[c].ended = Len(ConfiguredSteps)
          /\ ~Truthy(req[c].response.body) )
        =>  /\ pc[c] = "done"
            /\ ret[c].kind = "null"
            /\ ret[c].error = NoError
            /\ hist[c].failedAt = "none"
            /\ hist[c].stores = <<>>

C17_Witness ==
    \E c \in Calls :
        /\ pc[c] = "done"
        /\ hist[c].ended = Len(ConfiguredSteps)
        /\ hist[c].retrieved.state = "miss"
        /\ req[c].cacheResponseOptions.defined
        /\ hist[c].ctrlResults = <<"0">>
        /\ ret[c].kind = "null"
        /\ hist[c].stores = <<>>

\* C18: whatever RateLimiter.setup resolves to, the rateLimiter step sets
\* no response body and the pipeline goes on with the next step; when the
\* quota state is not usable the step sets no header.
C18_RateLimitNeverRejects ==
    [][ \A c \in Calls :
            (pc[c] = "rateLimiter" /\ Len(hist'[c].quotas) > Len(hist[c].quotas)) =>
                /\ req'[c].response.body = Undefined
                /\ hist'[c].bodySets = <<>>
                /\ pc'[c] = "loop"
                /\ mw'[c] = mw[c] + 1
                /\ Middlewares[mw'[c]] \in {"cacher", "controller"}
                /\ ret'[c] = NoRet
                /\ ~Numeric(Last(hist'[c].quotas))
                        => req'[c].response.headers = EmptyMap ]_vars

C18_Witness ==
    \E c \in Calls :
        /\ Len(hist[c].quotas) > 0
        /\ Last(hist[c].quotas).requests > Last(hist[c].quotas).allowedBeforeLimit
        /\ Last(hist[c].trace) = "rateLimiter"
        /\ pc[c] = "loop"
        /\ Middlewares[mw[c]] = "cacher"
        /\ req[c].response.body = Undefined

\* the context of call c does not satisfy the route: its path does not
\* satisfy the pattern or, without a path, its name is not the route's
NoMatch(c) ==
    /\ hist[c].matchOutcome # "none"
    /\ IF hist[c].input.path.present
       THEN ~PathExec(options.path, hist[c].input.path.segs).ok
       ELSE hist[c].input.name # options.name

\* C19: when the context does not satisfy the route, match returns null
\* and leaves the context as it came; matchHandle returns null and no
\* pipeline step has run, no collaborator has been called.
C19_NoMatchNoEffect ==
    \A c \in Calls :
        /\ NoMatch(c) => hist[c].matchOutcome = "null"
        /\ hist[c].matchOutcome = "null" =>
                /\ hist[c].matched = hist[c].input
                /\ req[c] = hist[c].input
                /\ pc[c] = "done"
                /\ ret[c] = [NoRet EXCEPT !.kind = "null"]
                /\ hist[c].trace = <<>>
                /\ hist[c].verified = <<>>
                /\ hist[c].setups = <<>>
                /\ hist[c].quotas = <<>>
                /\ hist[c].retrieved = NoRetrieval
                /\ hist[c].ctrlArgs = <<>>
                /\ hist[c].stores = <<>>

C19_Witness ==
    \E c \in Calls :
        /\ NoMatch(c)
        /\ hist[c].input.path.present
        /\ ~hist[c].input.payload.defined
        /\ options.rateLimit.present
        /\ options.cache.present
        /\ pc[c] = "done"
        /\ ret[c].kind = "null"

(***************************************************************************)
(* Principals                                                               *)
(***************************************************************************)
\* the principal of the call that stored the cached value v, on a route
\* that authenticates its calls
StoredBy(v) == AuthenticationVerify(AuthenticationToken(v.src)).principal

\* C15: on a route with cache.authBased, a call that has a principal looks
\* the store up under 'cache_{ip}_{method}_{originalUrl}' extended with the
\* serialized token of its principal, and a hit it gets was stored by a
\* call whose principal has the same token.
C15_CachePartitionedByPrincipal ==
    \A c \in Calls :
        ( /\ hist[c].retrieved.state # "none"
          /\ options.cache.authBased
          /\ req[c].authentication.defined )
        =>  /\ hist[c].retrieved.key =
                    <<"cache", hist[c].input.ip, hist[c].input.method,
                      hist[c].input.originalUrl,
                      <<"\"">> \o req[c].authentication.token \o <<"\"">> >>
            /\ ( /\ hist[c].retrieved.state = "hit"
                 /\ hist[c].retrieved.value.src # External )
                => StoredBy(hist[c].retrieved.value).token = req[c].authentication.token

\* a call of principal u finds nothing where a call of principal t, for the
\* same address, has stored its response
C15_Witness ==
    \E c \in Calls :
        /\ options.cache.authBased
        /\ req[c].authentication.token = <<"u">>
        /\ hist[c].retrieved.state = "miss"
        /\ \E k \in DOMAIN cache :
                /\ cache[k].src # External
                /\ cache[k].src.originalUrl = hist[c].input.originalUrl
                /\ StoredBy(cache[k]).token = <<"t">>

\* call c has begun the step
Began(c, step) == \E i \in 1..Len(hist[c].trace) : hist[c].trace[i] = step

\* the credential of call c as a string, '' when there is none
Credential(c) ==
    IF hist[c].input.encodedAuthentication.present
    THEN hist[c].input.encodedAuthentication.s ELSE <<>>

HasSpace(s) == \E i \in 1..Len(s) : s[i] = " "

\* the index of the first space of s
FirstSpace(s) == CHOOSE i \in 1..Len(s) : s[i] = " " /\ \A k \in 1..(i - 1) : s[k] # " "

\* what stands between the first space of s and its second space, or its
\* end when it has one space only
SecondPiece(s) ==
    LET rest == SubSeq(s, FirstSpace(s) + 1, Len(s))
    IN  IF HasSpace(rest) THEN SubSeq(rest, 1, FirstSpace(rest) - 1) ELSE rest

\* C16 as stated: Authentication.verify is passed what follows the first
\* space of encodedAuthentication, the empty string when there is no
\* encodedAuthentication; on success the principal is at
\* context.authentication.
C16_Original ==
    \A c \in Calls :
        Began(c, "authentication") =>
            /\ hist[c].verified = << [defined |-> TRUE, s |-> AfterFirstSpace(Credential(c))] >>
            /\ hist[c].failedAt # "authentication" =>
                    /\ req[c].authentication.defined
                    /\ req[c].authentication = AuthenticationVerify(hist[c].verified[1]).principal

\* C16 (amended): Authentication.verify is passed the second of the pieces
\* encodedAuthentication splits into at its spaces, which is undefined when
\* encodedAuthentication is absent or has no space; on success the
\* principal is at context.authentication, on failure the failure of
\* verify is raised.
C16_TokenIsSecondPiece ==
    \A c \in Calls :
        Began(c, "authentication") =>
            /\ Len(hist[c].verified) = 1
            /\ hist[c].verified[1].defined <=> HasSpace(Credential(c))
            /\ hist[c].verified[1].defined
                    => hist[c].verified[1].s = SecondPiece(Credential(c))
            /\ IF AuthenticationVerify(hist[c].verified[1]).ok
               THEN /\ hist[c].failedAt # "authentication"
                    /\ req[c].authentication.defined
                    /\ req[c].authentication = AuthenticationVerify(hist[c].verified[1]).principal
               ELSE /\ hist[c].failedAt = "authentication"
                    /\ ret[c].kind = "throw"
                    /\ ret[c].error = AuthenticationVerify(hist[c].verified[1]).error

C16_Witness ==
    \E c \in Calls :
        /\ Credential(c) = <<"B", " ", "t", " ", "u">>
        /\ hist[c].verified = << [defined |-> TRUE, s |-> <<"t">>] >>
        /\ req[c].authentication.token = <<"t">>
        /\ pc[c] = "done"
        /\ ret[c].kind = "response"

(***************************************************************************)
(* Concurrent calls                                                         *)
(***************************************************************************)
\* C14: the route configuration the pipeline closes over is read-only
\* after construction: no step of any call writes to it.
C14_RouteReadOnly == [][options' = options]_vars

====
